---------------------------- MODULE Spec2Model ----------------------------
(***************************************************************************)
(* TextSplitter (src/src/TextSplitter.ts): construction of a splitter from *)
(* a partial configuration, the recursive separator-cascade split with     *)
(* character-offset bookkeeping, and the overlap loop of split().          *)
(*                                                                         *)
(* A string is a sequence of one-character strings; a token is an integer. *)
(***************************************************************************)
EXTENDS Integers, Sequences, FiniteSets, TLC

(* ------------------------------ bounds -------------------------------- *)
\* longest enumerated input text
MaxLen == 4
\* largest chunkSize a caller passes explicitly
MaxChunkSize == 2

(* ------------------------- program constants -------------------------- *)
DefaultChunkSize == 400
DefaultChunkOverlap == 40

(* ------------------------------ strings ------------------------------- *)
NL == "\n"
SP == " "
\* the character U+0060, which a TLA+ string cannot hold
BQ == "grave"
Alphabet == {"A", "B", NL}

\* String.prototype.startsWith(sep, pos), pos 1-based
MatchesAt(text, sep, pos) ==
  /\ pos + Len(sep) - 1 <= Len(text)
  /\ \A k \in 1..Len(sep) : text[pos + k - 1] = sep[k]

RECURSIVE SplitFrom(_, _, _, _)
\* the parts of text from position `from` on, `pos` being the scan position
SplitFrom(text, sep, from, pos) ==
  IF pos + Len(sep) - 1 > Len(text)
    THEN << SubSeq(text, from, Len(text)) >>
    ELSE IF MatchesAt(text, sep, pos)
           THEN << SubSeq(text, from, pos - 1) >>
                  \o SplitFrom(text, sep, pos + Len(sep), pos + Len(sep))
           ELSE SplitFrom(text, sep, from, pos + 1)

\* variant of jsSplit: the empty separator divides nothing
jsSplitLiteral(text, sep) ==
  IF sep = <<>> THEN << text >> ELSE SplitFrom(text, sep, 1, 1)

\* String.prototype.split(separator) for a string separator, no limit
jsSplit(text, sep) ==
  IF sep = <<>>
    THEN [k \in 1..Len(text) |-> << text[k] >>]
    ELSE SplitFrom(text, sep, 1, 1)

\* Array.prototype.slice(begin) for 0 <= begin
jsSlice(arr, begin) == SubSeq(arr, begin + 1, Len(arr))

\* Array.prototype.reverse()
jsReverse(arr) == [k \in 1..Len(arr) |-> arr[Len(arr) + 1 - k]]

(* ----------------------------- tokenizers ----------------------------- *)
\* The Tokenizer capability of the configuration (text -> token ids,
\* deterministic): "char" encodes every character as one token; "wide"
\* encodes "B" as two tokens and any other character as one; "gpt3" stands
\* for the default GPT3Tokenizer, a merging encoder: two adjacent "A"
\* become one token.
\* the tokenizers a caller passes
Tokenizers == {"char", "wide"}

CharCode(c) ==
  CASE c = "A" -> 65
    [] c = "B" -> 66
    [] c = NL  -> 10
    [] c = SP  -> 32
    [] OTHER   -> 63

RECURSIVE encodeMerge(_)
encodeMerge(text) ==
  IF text = <<>> THEN <<>>
  ELSE IF Len(text) >= 2 /\ text[1] = "A" /\ text[2] = "A"
         THEN << 6565 >> \o encodeMerge(SubSeq(text, 3, Len(text)))
         ELSE << CharCode(text[1]) >> \o encodeMerge(Tail(text))

RECURSIVE encodeWide(_)
encodeWide(text) ==
  IF text = <<>> THEN <<>>
  ELSE (IF text[1] = "B" THEN << 66, 166 >> ELSE << CharCode(text[1]) >>)
         \o encodeWide(Tail(text))

\* tokenizer.encode(text)
encode(tokenizer, text) ==
  CASE tokenizer = "char" -> [k \in 1..Len(text) |-> CharCode(text[k])]
    [] tokenizer = "wide" -> encodeWide(text)
    [] OTHER              -> encodeMerge(text)

(* ------------------------- separator presets -------------------------- *)
getSeparators(docType) ==
  CASE docType \in {"cpp"} ->
       << <<"\n", "c", "l", "a", "s", "s", " ">>,
          <<"\n", "v", "o", "i", "d", " ">>,
          <<"\n", "i", "n", "t", " ">>,
          <<"\n", "f", "l", "o", "a", "t", " ">>,
          <<"\n", "d", "o", "u", "b", "l", "e", " ">>,
          <<"\n", "i", "f", " ">>,
          <<"\n", "f", "o", "r", " ">>,
          <<"\n", "w", "h", "i", "l", "e", " ">>,
          <<"\n", "s", "w", "i", "t", "c", "h", " ">>,
          <<"\n", "c", "a", "s", "e", " ">>,
          <<"\n", "\n">>,
          <<"\n">>,
          <<" ">>,
          <<>> >>
    [] docType \in {"go"} ->
       << <<"\n", "f", "u", "n", "c", " ">>,
          <<"\n", "v", "a", "r", " ">>,
          <<"\n", "c", "o", "n", "s", "t", " ">>,
          <<"\n", "t", "y", "p", "e", " ">>,
          <<"\n", "i", "f", " ">>,
          <<"\n", "f", "o", "r", " ">>,
          <<"\n", "s", "w", "i", "t", "c", "h", " ">>,
          <<"\n", "c", "a", "s", "e", " ">>,
          <<"\n", "\n">>,
          <<"\n">>,
          <<" ">>,
          <<>> >>
    [] docType \in {"java", "c#", "csharp", "cs", "ts", "tsx", "typescript"} ->
       << <<"\n", "c", "l", "a", "s", "s", " ">>,
          <<"\n", "p", "u", "b", "l", "i", "c", " ">>,
          <<"\n", "p", "r", "o", "t", "e", "c", "t", "e", "d", " ">>,
          <<"\n", "p", "r", "i", "v", "a", "t", "e", " ">>,
          <<"\n", "s", "t", "a", "t", "i", "c", " ">>,
          <<"\n", "i", "f", " ">>,
          <<"\n", "f", "o", "r", " ">>,
          <<"\n", "w", "h", "i", "l", "e", " ">>,
          <<"\n", "s", "w", "i", "t", "c", "h", " ">>,
          <<"\n", "c", "a", "s", "e", " ">>,
          <<"\n", "\n">>,
          <<"\n">>,
          <<" ">>,
          <<>> >>
    [] docType \in {"js", "jsx", "javascript"} ->
       << <<"\n", "c", "l", "a", "s", "s", " ">>,
          <<"\n", "f", "u", "n", "c", "t", "i", "o", "n", " ">>,
          <<"\n", "c", "o", "n", "s", "t", " ">>,
          <<"\n", "l", "e", "t", " ">>,
          <<"\n", "v", "a", "r", " ">>,
          <<"\n", "c", "l", "a", "s", "s", " ">>,
          <<"\n", "i", "f", " ">>,
          <<"\n", "f", "o", "r", " ">>,
          <<"\n", "w", "h", "i", "l", "e", " ">>,
          <<"\n", "s", "w", "i", "t", "c", "h", " ">>,
          <<"\n", "c", "a", "s", "e", " ">>,
          <<"\n", "d", "e", "f", "a", "u", "l", "t", " ">>,
          <<"\n", "\n">>,
          <<"\n">>,
          <<" ">>,
          <<>> >>
    [] docType \in {"php"} ->
       << <<"\n", "f", "u", "n", "c", "t", "i", "o", "n", " ">>,
          <<"\n", "c", "l", "a", "s", "s", " ">>,
          <<"\n", "i", "f", " ">>,
          <<"\n", "f", "o", "r", "e", "a", "c", "h", " ">>,
          <<"\n", "w", "h", "i", "l", "e", " ">>,
          <<"\n", "d", "o", " ">>,
          <<"\n", "s", "w", "i", "t", "c", "h", " ">>,
          <<"\n", "c", "a", "s", "e", " ">>,
          <<"\n", "\n">>,
          <<"\n">>,
          <<" ">>,
          <<>> >>
    [] docType \in {"proto"} ->
       << <<"\n", "m", "e", "s", "s", "a", "g", "e", " ">>,
          <<"\n", "s", "e", "r", "v", "i", "c", "e", " ">>,
          <<"\n", "e", "n", "u", "m", " ">>,
          <<"\n", "o", "p", "t", "i", "o", "n", " ">>,
          <<"\n", "i", "m", "p", "o", "r", "t", " ">>,
          <<"\n", "s", "y", "n", "t", "a", "x", " ">>,
          <<"\n", "\n">>,
          <<"\n">>,
          <<" ">>,
          <<>> >>
    [] docType \in {"python", "py"} ->
       << <<"\n", "c", "l", "a", "s", "s", " ">>,
          <<"\n", "d", "e", "f", " ">>,
          <<"\n", "\t", "d", "e", "f", " ">>,
          <<"\n", "\n">>,
          <<"\n">>,
          <<" ">>,
          <<>> >>
    [] docType \in {"rst"} ->
       << <<"\n", "=", "=", "=", "\n">>,
          <<"\n", "-", "-", "-", "\n">>,
          <<"\n", "*", "*", "*", "\n">>,
          <<"\n", ".", ".", " ">>,
          <<"\n", "\n">>,
          <<"\n">>,
          <<" ">>,
          <<>> >>
    [] docType \in {"ruby"} ->
       << <<"\n", "d", "e", "f", " ">>,
          <<"\n", "c", "l", "a", "s", "s", " ">>,
          <<"\n", "i", "f", " ">>,
          <<"\n", "u", "n", "l", "e", "s", "s", " ">>,
          <<"\n", "w", "h", "i", "l", "e", " ">>,
          <<"\n", "f", "o", "r", " ">>,
          <<"\n", "d", "o", " ">>,
          <<"\n", "b", "e", "g", "i", "n", " ">>,
          <<"\n", "r", "e", "s", "c", "u", "e", " ">>,
          <<"\n", "\n">>,
          <<"\n">>,
          <<" ">>,
          <<>> >>
    [] docType \in {"rust"} ->
       << <<"\n", "f", "n", " ">>,
          <<"\n", "c", "o", "n", "s", "t", " ">>,
          <<"\n", "l", "e", "t", " ">>,
          <<"\n", "i", "f", " ">>,
          <<"\n", "w", "h", "i", "l", "e", " ">>,
          <<"\n", "f", "o", "r", " ">>,
          <<"\n", "l", "o", "o", "p", " ">>,
          <<"\n", "m", "a", "t", "c", "h", " ">>,
          <<"\n", "c", "o", "n", "s", "t", " ">>,
          <<"\n", "\n">>,
          <<"\n">>,
          <<" ">>,
          <<>> >>
    [] docType \in {"scala"} ->
       << <<"\n", "c", "l", "a", "s", "s", " ">>,
          <<"\n", "o", "b", "j", "e", "c", "t", " ">>,
          <<"\n", "d", "e", "f", " ">>,
          <<"\n", "v", "a", "l", " ">>,
          <<"\n", "v", "a", "r", " ">>,
          <<"\n", "i", "f", " ">>,
          <<"\n", "f", "o", "r", " ">>,
          <<"\n", "w", "h", "i", "l", "e", " ">>,
          <<"\n", "m", "a", "t", "c", "h", " ">>,
          <<"\n", "c", "a", "s", "e", " ">>,
          <<"\n", "\n">>,
          <<"\n">>,
          <<" ">>,
          <<>> >>
    [] docType \in {"swift"} ->
       << <<"\n", "f", "u", "n", "c", " ">>,
          <<"\n", "c", "l", "a", "s", "s", " ">>,
          <<"\n", "s", "t", "r", "u", "c", "t", " ">>,
          <<"\n", "e", "n", "u", "m", " ">>,
          <<"\n", "i", "f", " ">>,
          <<"\n", "f", "o", "r", " ">>,
          <<"\n", "w", "h", "i", "l", "e", " ">>,
          <<"\n", "d", "o", " ">>,
          <<"\n", "s", "w", "i", "t", "c", "h", " ">>,
          <<"\n", "c", "a", "s", "e", " ">>,
          <<"\n", "\n">>,
          <<"\n">>,
          <<" ">>,
          <<>> >>
    [] docType \in {"markdown"} ->
       << <<"\n", "#", "#", " ">>,
          <<"\n", "#", "#", "#", " ">>,
          <<"\n", "#", "#", "#", "#", " ">>,
          <<"\n", "#", "#", "#", "#", "#", " ">>,
          <<"\n", "#", "#", "#", "#", "#", "#", " ">>,
          <<BQ, BQ, BQ, "\n", "\n">>,
          <<"\n", "\n", "*", "*", "*", "\n", "\n">>,
          <<"\n", "\n", "-", "-", "-", "\n", "\n">>,
          <<"\n", "\n", "_", "_", "_", "\n", "\n">>,
          <<"\n", "\n">>,
          <<"\n">>,
          <<" ">>,
          <<>> >>
    [] docType \in {"latex"} ->
       << <<"\n", "\\", "c", "h", "a", "p", "t", "e", "r", "{">>,
          <<"\n", "\\", "s", "e", "c", "t", "i", "o", "n", "{">>,
          <<"\n", "\\", "s", "u", "b", "s", "e", "c", "t", "i", "o", "n", "{">>,
          <<"\n", "\\", "s", "u", "b", "s", "u", "b", "s", "e", "c", "t", "i", "o", "n", "{">>,
          <<"\n", "\\", "b", "e", "g", "i", "n", "{", "e", "n", "u", "m", "e", "r", "a", "t", "e", "}">>,
          <<"\n", "\\", "b", "e", "g", "i", "n", "{", "i", "t", "e", "m", "i", "z", "e", "}">>,
          <<"\n", "\\", "b", "e", "g", "i", "n", "{", "d", "e", "s", "c", "r", "i", "p", "t", "i", "o", "n", "}">>,
          <<"\n", "\\", "b", "e", "g", "i", "n", "{", "l", "i", "s", "t", "}">>,
          <<"\n", "\\", "b", "e", "g", "i", "n", "{", "q", "u", "o", "t", "e", "}">>,
          <<"\n", "\\", "b", "e", "g", "i", "n", "{", "q", "u", "o", "t", "a", "t", "i", "o", "n", "}">>,
          <<"\n", "\\", "b", "e", "g", "i", "n", "{", "v", "e", "r", "s", "e", "}">>,
          <<"\n", "\\", "b", "e", "g", "i", "n", "{", "v", "e", "r", "b", "a", "t", "i", "m", "}">>,
          <<"\n", "\\", "b", "e", "g", "i", "n", "{", "a", "l", "i", "g", "n", "}">>,
          <<"$", "$">>,
          <<"$">>,
          <<"\n", "\n">>,
          <<"\n">>,
          <<" ">>,
          <<>> >>
    [] docType \in {"html"} ->
       << <<"<", "b", "o", "d", "y", ">">>,
          <<"<", "d", "i", "v", ">">>,
          <<"<", "p", ">">>,
          <<"<", "b", "r", ">">>,
          <<"<", "l", "i", ">">>,
          <<"<", "h", "1", ">">>,
          <<"<", "h", "2", ">">>,
          <<"<", "h", "3", ">">>,
          <<"<", "h", "4", ">">>,
          <<"<", "h", "5", ">">>,
          <<"<", "h", "6", ">">>,
          <<"<", "s", "p", "a", "n", ">">>,
          <<"<", "t", "a", "b", "l", "e", ">">>,
          <<"<", "t", "r", ">">>,
          <<"<", "t", "d", ">">>,
          <<"<", "t", "h", ">">>,
          <<"<", "u", "l", ">">>,
          <<"<", "o", "l", ">">>,
          <<"<", "h", "e", "a", "d", "e", "r", ">">>,
          <<"<", "f", "o", "o", "t", "e", "r", ">">>,
          <<"<", "n", "a", "v", ">">>,
          <<"<", "h", "e", "a", "d", ">">>,
          <<"<", "s", "t", "y", "l", "e", ">">>,
          <<"<", "s", "c", "r", "i", "p", "t", ">">>,
          <<"<", "m", "e", "t", "a", ">">>,
          <<"<", "t", "i", "t", "l", "e", ">">>,
          <<" ">>,
          <<>> >>
    [] docType \in {"sol"} ->
       << <<"\n", "p", "r", "a", "g", "m", "a", " ">>,
          <<"\n", "u", "s", "i", "n", "g", " ">>,
          <<"\n", "c", "o", "n", "t", "r", "a", "c", "t", " ">>,
          <<"\n", "i", "n", "t", "e", "r", "f", "a", "c", "e", " ">>,
          <<"\n", "l", "i", "b", "r", "a", "r", "y", " ">>,
          <<"\n", "c", "o", "n", "s", "t", "r", "u", "c", "t", "o", "r", " ">>,
          <<"\n", "t", "y", "p", "e", " ">>,
          <<"\n", "f", "u", "n", "c", "t", "i", "o", "n", " ">>,
          <<"\n", "e", "v", "e", "n", "t", " ">>,
          <<"\n", "m", "o", "d", "i", "f", "i", "e", "r", " ">>,
          <<"\n", "e", "r", "r", "o", "r", " ">>,
          <<"\n", "s", "t", "r", "u", "c", "t", " ">>,
          <<"\n", "e", "n", "u", "m", " ">>,
          <<"\n", "i", "f", " ">>,
          <<"\n", "f", "o", "r", " ">>,
          <<"\n", "w", "h", "i", "l", "e", " ">>,
          <<"\n", "d", "o", " ", "w", "h", "i", "l", "e", " ">>,
          <<"\n", "a", "s", "s", "e", "m", "b", "l", "y", " ">>,
          <<"\n", "\n">>,
          <<"\n">>,
          <<" ">>,
          <<>> >>
    [] OTHER ->
       << <<"\n", "\n">>,
          <<"\n">>,
          <<" ">>,
          <<>> >>

(* --------------------------- configuration ---------------------------- *)
\* an optional value: a field the caller may leave out, nextChunk?.tokens
None(dummy) == [def |-> FALSE, val |-> dummy]
Some(v) == [def |-> TRUE, val |-> v]
Opt(S, dummy) == { None(dummy) } \cup { Some(v) : v \in S }

\* the defaults of Object.assign's target; tokenizer and docType have none
DefaultSeparators == << <<NL, NL>>, <<NL>>, <<SP>>, <<>> >>

\* Object.assign(defaults, config): a field the caller gives overrides the
\* default; an absent tokenizer is falsy, an absent docType is undefined
\* (read as '' by getSeparators)
assignDefaults(in) ==
  [ separators     |-> IF in.separators.def
                         THEN in.separators.val ELSE DefaultSeparators,
    keepSeparators |-> IF in.keepSeparators.def
                         THEN in.keepSeparators.val ELSE FALSE,
    chunkSize      |-> IF in.chunkSize.def
                         THEN in.chunkSize.val ELSE DefaultChunkSize,
    chunkOverlap   |-> IF in.chunkOverlap.def
                         THEN in.chunkOverlap.val ELSE DefaultChunkOverlap,
    tokenizer      |-> IF in.tokenizer.def THEN in.tokenizer.val ELSE "",
    docType        |-> IF in.docType.def THEN in.docType.val ELSE "" ]

\* "Create a default tokenizer if none is provided"
withTokenizer(cfg) ==
  IF cfg.tokenizer = "" THEN [cfg EXCEPT !.tokenizer = "gpt3"] ELSE cfg

\* "Use default separators if none are provided"
withSeparators(cfg) ==
  IF Len(cfg.separators) = 0
    THEN [cfg EXCEPT !.separators = getSeparators(cfg.docType)]
    ELSE cfg

\* variant of effectiveConfig: a defaulted chunkOverlap is cut to chunkSize
effectiveConfigClamped(in) ==
  LET cfg == withSeparators(withTokenizer(assignDefaults(in)))
  IN IF ~in.chunkOverlap.def /\ cfg.chunkOverlap > cfg.chunkSize
       THEN [cfg EXCEPT !.chunkOverlap = cfg.chunkSize] ELSE cfg

\* the configuration the constructor stores in this._config
effectiveConfig(in) == withSeparators(withTokenizer(assignDefaults(in)))

\* variant of validate: an overlap equal to chunkSize is rejected too
validateStrict(cfg) ==
  IF cfg.chunkSize < 1 THEN "chunkSize must be >= 1"
  ELSE IF cfg.chunkOverlap < 0 THEN "chunkOverlap must be >= 0"
  ELSE IF cfg.chunkOverlap >= cfg.chunkSize
         THEN "chunkOverlap must be <= chunkSize"
  ELSE ""

\* "Validate the config settings": the message thrown, "" when none
validate(cfg) ==
  IF cfg.chunkSize < 1 THEN "chunkSize must be >= 1"
  ELSE IF cfg.chunkOverlap < 0 THEN "chunkOverlap must be >= 0"
  ELSE IF cfg.chunkOverlap > cfg.chunkSize
         THEN "chunkOverlap must be <= chunkSize"
  ELSE ""

(* --------------------------- recursiveSplit --------------------------- *)
\* variant of partEndPos: endPos leaves the consumed separator out
partEndPosNoSeparator(startPos, part, lastChunk, separator) ==
  startPos + (Len(part) - 1)

\* variant of partEndPos: the separator is counted after the last part too
partEndPosAlways(startPos, part, lastChunk, separator) ==
  (startPos + (Len(part) - 1)) + Len(separator)

\* "Get chunk text and endPos": endPos of a part
partEndPos(startPos, part, lastChunk, separator) ==
  (startPos + (Len(part) - 1)) + (IF lastChunk THEN 0 ELSE Len(separator))

\* variant of chunkText: the kept separator is never appended
chunkTextDropped(cfg, part, lastChunk, separator) == part

\* the chunk text of a part: the separator is appended when kept
chunkText(cfg, part, lastChunk, separator) ==
  IF cfg.keepSeparators /\ ~lastChunk THEN part \o separator ELSE part

\* variant of overBudget: the budget test off by one
overBudgetOffByOne(cfg, tokens) == Len(tokens) > cfg.chunkSize + 1

\* the budget test that sends a part to the next separator
overBudget(cfg, tokens) == Len(tokens) > cfg.chunkSize

\* "Append chunk to output"
newChunk(chunk, tokens, startPos, endPos) ==
  [ text |-> chunk, tokens |-> tokens, startPos |-> startPos,
    endPos |-> endPos, startOverlap |-> <<>>, endOverlap |-> <<>> ]

\* variant of nextSeparatorsOf: two entries are removed instead of one
nextSeparatorsOfSkip(separators) ==
  IF Len(separators) > 2 THEN Tail(Tail(separators)) ELSE <<>>

\* the separators a recursive call receives: separators.slice(1)
nextSeparatorsOf(separators) ==
  IF Len(separators) > 1 THEN Tail(separators) ELSE <<>>

RECURSIVE recursiveSplit(_, _, _, _)
RECURSIVE splitParts(_, _, _, _, _, _)

RECURSIVE splitPartsSkipEmpty(_, _, _, _, _, _)
\* variant of splitParts: a part whose chunk text is empty is not pushed
splitPartsSkipEmpty(cfg, parts, separator, nextSeparators, i, startPos) ==
  IF i > Len(parts) THEN <<>>
  ELSE
    LET lastChunk == (i = Len(parts))
        endPos    == partEndPos(startPos, parts[i], lastChunk, separator)
        chunk     == chunkText(cfg, parts[i], lastChunk, separator)
        tokens    == encode(cfg.tokenizer, chunk)
        pushed    == IF overBudget(cfg, tokens)
                       THEN recursiveSplit(cfg, chunk, nextSeparators, startPos)
                       ELSE IF chunk = <<>> THEN <<>>
                       ELSE << newChunk(chunk, tokens, startPos, endPos) >>
    IN pushed \o splitPartsSkipEmpty(cfg, parts, separator, nextSeparators,
                                     i + 1, endPos + 1)

RECURSIVE splitPartsNoAdvance(_, _, _, _, _, _)
\* variant of splitParts: startPos moves on only after a pushed chunk
splitPartsNoAdvance(cfg, parts, separator, nextSeparators, i, startPos) ==
  IF i > Len(parts) THEN <<>>
  ELSE
    LET lastChunk == (i = Len(parts))
        endPos    == partEndPos(startPos, parts[i], lastChunk, separator)
        chunk     == chunkText(cfg, parts[i], lastChunk, separator)
        tokens    == encode(cfg.tokenizer, chunk)
        over      == overBudget(cfg, tokens)
        pushed    == IF over
                       THEN recursiveSplit(cfg, chunk, nextSeparators, startPos)
                       ELSE << newChunk(chunk, tokens, startPos, endPos) >>
    IN pushed \o splitPartsNoAdvance(cfg, parts, separator, nextSeparators,
                   i + 1, IF over THEN startPos ELSE endPos + 1)

\* the for loop over parts, from part i (1-based) on, at offset startPos
splitParts(cfg, parts, separator, nextSeparators, i, startPos) ==
  IF i > Len(parts) THEN <<>>
  ELSE
    LET lastChunk == (i = Len(parts))
        endPos    == partEndPos(startPos, parts[i], lastChunk, separator)
        chunk     == chunkText(cfg, parts[i], lastChunk, separator)
        tokens    == encode(cfg.tokenizer, chunk)
        pushed    == IF overBudget(cfg, tokens)
                       THEN recursiveSplit(cfg, chunk, nextSeparators, startPos)
                       ELSE << newChunk(chunk, tokens, startPos, endPos) >>
    IN pushed \o splitParts(cfg, parts, separator, nextSeparators,
                            i + 1, endPos + 1)

recursiveSplit(cfg, text, separators, startPos) ==
  IF Len(text) > 0 /\ Len(separators) > 0
    THEN LET separator      == Head(separators)
             parts          == jsSplit(text, separator)
         IN splitParts(cfg, parts, separator, nextSeparatorsOf(separators),
                       1, startPos)
    ELSE <<>>

RECURSIVE recursiveSplitTrace(_, _, _, _, _)
RECURSIVE splitPartsTrace(_, _, _, _, _, _)

\* the iterations of the for loop that a call of recursiveSplit and the
\* calls below it run, in execution order: one record for each part, with
\* the values the iteration computes (depth counts the enclosing calls)
splitPartsTrace(cfg, parts, separators, i, startPos, depth) ==
  IF i > Len(parts) THEN <<>>
  ELSE
    LET separator == Head(separators)
        lastChunk == (i = Len(parts))
        endPos    == partEndPos(startPos, parts[i], lastChunk, separator)
        chunk     == chunkText(cfg, parts[i], lastChunk, separator)
        tokens    == encode(cfg.tokenizer, chunk)
        over      == overBudget(cfg, tokens)
        next      == nextSeparatorsOf(separators)
        visit     == [ depth |-> depth, separators |-> separators,
                       nextSeparators |-> next, i |-> i - 1,
                       lastChunk |-> lastChunk, part |-> parts[i],
                       chunk |-> chunk, tokens |-> tokens,
                       startPos |-> startPos, endPos |-> endPos,
                       over |-> over ]
    IN << visit >>
         \o (IF over
               THEN recursiveSplitTrace(cfg, chunk, next, startPos, depth + 1)
               ELSE <<>>)
         \o splitPartsTrace(cfg, parts, separators, i + 1, endPos + 1, depth)

recursiveSplitTrace(cfg, text, separators, startPos, depth) ==
  IF Len(text) > 0 /\ Len(separators) > 0
    THEN splitPartsTrace(cfg, jsSplit(text, Head(separators)), separators,
                         1, startPos, depth)
    ELSE <<>>

(* ------------------------------ overlap ------------------------------- *)
\* variant of getOverlapTokens: the first len tokens are taken
getOverlapTokensTaken(cfg, tokens) ==
  IF tokens.def
    THEN LET len == IF Len(tokens.val) > cfg.chunkOverlap
                      THEN cfg.chunkOverlap ELSE Len(tokens.val)
         IN SubSeq(tokens.val, 1, len)
    ELSE <<>>

\* the local function getOverlapTokens of split
getOverlapTokens(cfg, tokens) ==
  IF tokens.def
    THEN LET len == IF Len(tokens.val) > cfg.chunkOverlap
                      THEN cfg.chunkOverlap ELSE Len(tokens.val)
         IN jsSlice(tokens.val, Len(tokens.val))
    ELSE <<>>

\* one iteration of the overlap loop, i the 0-based loop index:
\* previousChunk.tokens.reverse() reverses that array in place
overlapStep(cfg, chunks, i) ==
  LET previousChunk == chunks[i]
      nextTokens    == IF i < Len(chunks) - 1
                         THEN Some(chunks[i + 2].tokens) ELSE None(<<>>)
      reversed      == jsReverse(previousChunk.tokens)
  IN [chunks EXCEPT
        ![i].tokens           = reversed,
        ![i + 1].startOverlap = jsReverse(getOverlapTokens(cfg, Some(reversed))),
        ![i + 1].endOverlap   = getOverlapTokens(cfg, nextTokens)]

(* ------------------------------- inputs ------------------------------- *)
\* "AAAA\n\nBBBB", the input of scenarios A and B
ScenarioText == <<"A", "A", "A", "A", NL, NL, "B", "B", "B", "B">>
\* "AB A\n\nB BA", an input every default separator divides
WordsText == <<"A", "B", SP, "A", NL, NL, "B", SP, "B", "A">>

RECURSIVE StringsOfLen(_)
StringsOfLen(n) ==
  IF n = 0 THEN { <<>> }
  ELSE { s \o <<c>> : s \in StringsOfLen(n - 1), c \in Alphabet }

Texts == UNION { StringsOfLen(n) : n \in 0..MaxLen } \cup { ScenarioText, WordsText }

SeparatorLists ==
  { <<>>,
    << <<NL, NL>> >>,
    << <<NL>>, <<>> >>,
    << <<NL, NL>>, <<NL>> >> }

DocTypes == {"markdown"}

\* Partial<TextSplitterConfig>: the argument of the constructor
Inputs ==
  [ separators     : Opt(SeparatorLists, <<>>),
    keepSeparators : Opt({TRUE}, FALSE),
    chunkSize      : Opt(0..MaxChunkSize, 0),
    chunkOverlap   : Opt(-1..(MaxChunkSize + 1), 0),
    tokenizer      : Opt(Tokenizers, ""),
    docType        : Opt(DocTypes, "") ]

\* this._config before the constructor has run
NoConfig == assignDefaults([ separators |-> None(<<>>), keepSeparators |-> None(FALSE),
                             chunkSize |-> None(0), chunkOverlap |-> None(0),
                             tokenizer |-> None(""), docType |-> None("") ])

(* --------------------------- OpenAIEmbeddings -------------------------- *)
\* the default of Object.assign's target in the constructor
DefaultRetryPolicy == << 2000, 5000 >>

\* longest retryPolicy a caller passes
MaxPolicyLen == 2
RetryDelays == {1000, 2000, 5000}
RetryPolicies == UNION { [1..n -> RetryDelays] : n \in 0..MaxPolicyLen }

\* the statuses the API answers with
Statuses == {200, 302, 404, 429, 500}

\* Object.assign({retryPolicy: [2000, 5000]}, options)
optionsRetryPolicy(given) ==
  IF given.def THEN given.val ELSE DefaultRetryPolicy

\* axios validateStatus: the request promise resolves, else it rejects
validateStatus(status) == status < 400 \/ status = 429

\* variant of shouldRetry: any status that is not a success is retried
shouldRetryAnyFailure(status, retryPolicy, retryCount) ==
  status >= 300 /\ retryCount < Len(retryPolicy)

\* "Check for rate limit error": the test of post that leads to a retry
\* (the retryPolicy of the model is always an array)
shouldRetry(status, retryPolicy, retryCount) ==
  status = 429 /\ retryCount < Len(retryPolicy)

\* the status createEmbeddings reports for the response post returned
embeddingsStatus(status) ==
  IF status < 300 THEN "success"
  ELSE IF status = 429 THEN "rate_limited"
  ELSE "error"

(* ------------------------------- state -------------------------------- *)
VARIABLES
  pc,      \* "new", "failed", "ready", "overlap", "returned"
  input,   \* the constructor's argument
  config,  \* this._config
  error,   \* the message the constructor threw, "" when none
  text,    \* the argument of split
  chunks,  \* the array split builds and returns
  visits,  \* history: the loop iterations recursiveSplit ran for this text
  i,       \* the index of the overlap loop (0-based)
  epc,         \* createEmbeddings: "idle", "sending", "waiting", "returned", "threw"
  retryPolicy, \* this.options.retryPolicy
  retryCount,  \* the parameter retryCount of the running call of post
  responses,   \* history: the status of every response received
  delays,      \* history: the delay of every setTimeout
  result       \* the status createEmbeddings returned, "" when none

svars == << pc, input, config, error, text, chunks, visits, i >>
evars == << epc, retryPolicy, retryCount, responses, delays, result >>
vars == << svars, evars >>

\* an OpenAIEmbeddings constructed with the options given
InitEmbeddings(given) ==
  /\ epc = "idle"
  /\ retryPolicy = optionsRetryPolicy(given)
  /\ retryCount = 0
  /\ responses = <<>>
  /\ delays = <<>>
  /\ result = ""

Init ==
  /\ pc = "new"
  /\ input \in Inputs
  /\ config = NoConfig
  /\ error = ""
  /\ text = <<>>
  /\ chunks = <<>>
  /\ visits = <<>>
  /\ i = 0
  /\ InitEmbeddings(None(<<>>))

\* new TextSplitter(input)
Construct ==
  /\ pc = "new"
  /\ config' = effectiveConfig(input)
  /\ error' = validate(config')
  /\ pc' = IF error' = "" THEN "ready" ELSE "failed"
  /\ UNCHANGED << input, text, chunks, visits, i, evars >>

\* split(t) up to the overlap loop: "Get basic chunks"
Split(t) ==
  /\ pc = "ready"
  /\ text' = t
  /\ chunks' = recursiveSplit(config, t, config.separators, 0)
  /\ visits' = recursiveSplitTrace(config, t, config.separators, 0, 0)
  /\ i' = 1
  /\ pc' = "overlap"
  /\ UNCHANGED << input, config, error, evars >>

\* the loop of split runs while chunkOverlap > 0 and i < chunks.length
InLoop == config.chunkOverlap > 0 /\ i < Len(chunks)

\* one iteration of "Add overlap tokens and text ..."
Overlap ==
  /\ pc = "overlap"
  /\ InLoop
  /\ chunks' = overlapStep(config, chunks, i)
  /\ i' = i + 1
  /\ UNCHANGED << pc, input, config, error, text, visits, evars >>

\* return chunks
Return ==
  /\ pc = "overlap"
  /\ ~InLoop
  /\ pc' = "returned"
  /\ UNCHANGED << input, config, error, text, chunks, visits, i, evars >>

Next ==
  \/ Construct
  \/ \E t \in Texts : Split(t)
  \/ Overlap
  \/ Return

Spec == Init /\ [][Next]_vars

(* ------------------------ construction alone -------------------------- *)
\* configurations with a chunkSize on either side of the default overlap
InputsC ==
  [ separators     : { None(<<>>) },
    keepSeparators : Opt({TRUE}, FALSE),
    chunkSize      : Opt(0..(DefaultChunkOverlap + 1), 0),
    chunkOverlap   : Opt({-1, 0, 1, DefaultChunkOverlap - 1, DefaultChunkOverlap,
                          DefaultChunkOverlap + 1}, 0),
    tokenizer      : { None("") },
    docType        : { None("") } ]

InitC ==
  /\ pc = "new"
  /\ input \in InputsC
  /\ config = NoConfig
  /\ error = ""
  /\ text = <<>>
  /\ chunks = <<>>
  /\ visits = <<>>
  /\ i = 0
  /\ InitEmbeddings(None(<<>>))

SpecC == InitC /\ [][Construct]_vars

(* ----------------- createEmbeddings and post, step by step ------------- *)
\* no TextSplitter takes part
InitE ==
  /\ pc = "new"
  /\ input = [ separators |-> None(<<>>), keepSeparators |-> None(FALSE),
               chunkSize |-> None(0), chunkOverlap |-> None(0),
               tokenizer |-> None(""), docType |-> None("") ]
  /\ config = NoConfig
  /\ error = ""
  /\ text = <<>>
  /\ chunks = <<>>
  /\ visits = <<>>
  /\ i = 0
  /\ \E given \in Opt(RetryPolicies, <<>>) : InitEmbeddings(given)

\* createEmbeddings calls post with retryCount = 0, which sends the request
CreateEmbeddings ==
  /\ epc = "idle"
  /\ epc' = "sending"
  /\ UNCHANGED << retryPolicy, retryCount, responses, delays, result, svars >>

\* the response arrives with a status the client resolves on: post either
\* starts the timer of the next retry or returns the response, on which
\* createEmbeddings reports its status
Respond(status) ==
  /\ epc = "sending"
  /\ validateStatus(status)
  /\ responses' = Append(responses, status)
  /\ IF shouldRetry(status, retryPolicy, retryCount)
       THEN /\ delays' = Append(delays, retryPolicy[retryCount + 1])
            /\ epc' = "waiting"
            /\ UNCHANGED result
       ELSE /\ epc' = "returned"
            /\ result' = embeddingsStatus(status)
            /\ UNCHANGED delays
  /\ UNCHANGED << retryPolicy, retryCount, svars >>

\* the response has a status the client rejects on: post and
\* createEmbeddings throw
Reject(status) ==
  /\ epc = "sending"
  /\ ~validateStatus(status)
  /\ responses' = Append(responses, status)
  /\ epc' = "threw"
  /\ UNCHANGED << retryPolicy, retryCount, delays, result, svars >>

\* the timer fires: return this.post(url, body, retryCount + 1)
Retry ==
  /\ epc = "waiting"
  /\ retryCount' = retryCount + 1
  /\ epc' = "sending"
  /\ UNCHANGED << retryPolicy, responses, delays, result, svars >>

NextE ==
  \/ CreateEmbeddings
  \/ \E status \in Statuses : Respond(status)
  \/ \E status \in Statuses : Reject(status)
  \/ Retry

SpecE == InitE /\ [][NextE]_vars

(* ------------------------- derived definitions ------------------------ *)
Returned == pc = "returned"
Constructed == pc \in {"ready", "overlap", "returned"}

\* the chunks recursiveSplit produced for the current call of split
Basic == recursiveSplit(config, text, config.separators, 0)

Min(a, b) == IF a < b THEN a ELSE b
FirstN(s, n) == SubSeq(s, 1, n)
LastN(s, n) == SubSeq(s, Len(s) - n + 1, Len(s))

\* the part of the input a chunk's [startPos, endPos] names
Span(c) == SubSeq(text, c.startPos + 1, c.endPos + 1)

AAAA == <<"A", "A", "A", "A">>
BBBB == <<"B", "B", "B", "B">>

\* the configuration of scenarios A and B: "\n\n" is the first separator and
\* neither half of the scenario text exceeds the budget
ScenarioConfig ==
  /\ Head(config.separators) = <<NL, NL>>
  /\ Len(encode(config.tokenizer, BBBB \o <<NL, NL>>)) <= config.chunkSize
  /\ Len(encode(config.tokenizer, AAAA \o <<NL, NL>>)) <= config.chunkSize

(* ------------------------------- claims ------------------------------- *)

\* C1: every chunk split returns has at most chunkSize tokens, for every
\* text, separator list, keepSeparators value and chunkSize >= 1.
C1_Budget ==
  pc \in {"overlap", "returned"} =>
    \A k \in 1..Len(chunks) : Len(chunks[k].tokens) <= config.chunkSize

\* C1 witness: split returned chunks after sending an over-budget part to a
\* finer separator, and one chunk fills the budget exactly.
C1_Witness ==
  /\ Returned
  /\ Len(encode(config.tokenizer, text)) > config.chunkSize
  /\ Len(chunks) >= 2
  /\ \E k \in 1..Len(chunks) : Len(chunks[k].tokens) = config.chunkSize

RECURSIVE Reassembles(_, _)
\* the input from position pos (1-based) on is chunk k's text, then a
\* removed separator (one of the configured separators when separators are
\* not kept, nothing when they are), then chunk k + 1's text, and so on to
\* the last chunk, which ends the input
Reassembles(k, pos) ==
  IF k > Len(chunks) THEN k = 1 /\ text = <<>>
  ELSE
    LET t    == chunks[k].text
        next == pos + Len(t)
    IN /\ MatchesAt(text, t, pos)
       /\ IF k = Len(chunks) THEN next = Len(text) + 1
          ELSE IF config.keepSeparators THEN Reassembles(k + 1, next)
          ELSE \E n \in 1..Len(config.separators) :
                 /\ MatchesAt(text, config.separators[n], next)
                 /\ Reassembles(k + 1, next + Len(config.separators[n]))

\* C2: reconstruction: the chunk texts in emitted order, with the removed
\* separator re-inserted between chunks when separators are not kept, are
\* the input exactly.
C2_Reconstruction == Returned => Reassembles(1, 1)

\* C3: the overlap loop is purely additive: after split returns, every
\* chunk's text, tokens, startPos and endPos are those recursiveSplit
\* produced, and its tokens are the encoding of its text, in order.
C3_OverlapAdditive ==
  Returned =>
    /\ Len(chunks) = Len(Basic)
    /\ \A k \in 1..Len(chunks) :
         /\ chunks[k].text = Basic[k].text
         /\ chunks[k].tokens = Basic[k].tokens
         /\ chunks[k].startPos = Basic[k].startPos
         /\ chunks[k].endPos = Basic[k].endPos
         /\ chunks[k].tokens = encode(config.tokenizer, chunks[k].text)

\* C4: with chunkOverlap > 0, every chunk but the first has startOverlap
\* equal to the last min(chunkOverlap, len(previous tokens)) tokens of the
\* preceding chunk, in original order.
C4_StartOverlap ==
  (Returned /\ config.chunkOverlap > 0) =>
    \A k \in 2..Len(chunks) :
      chunks[k].startOverlap =
        LastN(Basic[k - 1].tokens,
              Min(config.chunkOverlap, Len(Basic[k - 1].tokens)))

\* C5: with chunkOverlap > 0, every chunk but the last, the first chunk
\* included, has endOverlap equal to the first min(chunkOverlap, len(next
\* tokens)) tokens of the following chunk, in original order.
C5_EndOverlap ==
  (Returned /\ config.chunkOverlap > 0) =>
    \A k \in 1..(Len(chunks) - 1) :
      chunks[k].endOverlap =
        FirstN(Basic[k + 1].tokens,
               Min(config.chunkOverlap, Len(Basic[k + 1].tokens)))

\* the shape scenario A names: two chunks, "AAAA" from offset 0 and "BBBB"
\* at offsets [6, 9], the first one ending at offset e
ScenarioChunks(e) ==
  /\ Len(chunks) = 2
  /\ chunks[1].text = AAAA /\ chunks[1].startPos = 0 /\ chunks[1].endPos = e
  /\ chunks[2].text = BBBB /\ chunks[2].startPos = 6 /\ chunks[2].endPos = 9

ScenarioA ==
  Returned /\ text = ScenarioText /\ ~config.keepSeparators /\ ScenarioConfig

\* C6 (as stated): scenario A returns "AAAA" at offsets [0, 3] and "BBBB" at
\* offsets [6, 9].
C6_ScenarioA_Original == ScenarioA => ScenarioChunks(3)

\* C6 (amended): scenario A returns exactly two chunks, "AAAA" with
\* startPos 0 and endPos 5 (the span of a non-last chunk takes in the
\* removed separator) and "BBBB" with startPos 6 and endPos 9.
C6_ScenarioA == ScenarioA => ScenarioChunks(5)

\* C6 witness: scenario A has run.
C6_Witness == ScenarioA /\ Len(chunks) = 2

\* C7: with keepSeparators, the separator removed after a non-last part is
\* appended to that part's chunk, so the text of every chunk, at any depth,
\* is the input from startPos through endPos; the first chunk of scenario B
\* is "AAAA\n\n".
C7_KeptSeparatorSpan ==
  (Returned /\ config.keepSeparators) =>
    /\ \A k \in 1..Len(chunks) :
         /\ 0 <= chunks[k].startPos
         /\ chunks[k].endPos < Len(text)
         /\ chunks[k].text = Span(chunks[k])
    /\ (text = ScenarioText /\ ScenarioConfig) =>
         chunks[1].text = AAAA \o <<NL, NL>>

\* C7 witness: separators are kept and a chunk produced by a recursive call
\* (the whole input was over budget) ends with the separator removed after
\* a part that is not the first.
C7_Witness ==
  /\ Returned /\ config.keepSeparators
  /\ Len(encode(config.tokenizer, text)) > config.chunkSize
  /\ \E k \in 2..Len(chunks) :
       /\ k < Len(chunks)
       /\ Len(chunks[k].text) >= 2
       /\ chunks[k].text[Len(chunks[k].text)] = NL

\* a text no configured separator divides
Indivisible(t) ==
  \A n \in 1..Len(config.separators) : jsSplit(t, config.separators[n]) = <<t>>

\* C8: a single indivisible unit that still encodes to more than chunkSize
\* tokens is emitted as its own chunk, over budget, rather than omitted.
C8_UnitEmitted ==
  ( /\ Returned
    /\ Len(text) > 0
    /\ Indivisible(text)
    /\ Len(encode(config.tokenizer, text)) > config.chunkSize ) =>
    (Len(chunks) = 1 /\ chunks[1].text = text)

\* C9: construction throws exactly when the effective configuration has
\* chunkSize < 1, chunkOverlap < 0 or chunkOverlap > chunkSize.
C9_Validation ==
  pc # "new" =>
    /\ (pc = "failed") <=>
         \/ config.chunkSize < 1
         \/ config.chunkOverlap < 0
         \/ config.chunkOverlap > config.chunkSize
    /\ (pc = "failed") <=> (error # "")
    /\ Constructed <=>
         (config.chunkSize >= 1 /\ 0 <= config.chunkOverlap
            /\ config.chunkOverlap <= config.chunkSize)

\* C9 witness: construction was rejected for chunkOverlap > chunkSize alone.
C9_Witness ==
  /\ pc = "failed"
  /\ config.chunkSize >= 1
  /\ config.chunkOverlap > config.chunkSize

\* C10: a caller that gives a docType and leaves separators out gets the
\* separator list of that docType.
C10_DocTypeSeparators ==
  (pc # "new" /\ input.docType.def /\ ~input.separators.def) =>
    config.separators = getSeparators(input.docType.val)

(* ---------------------- the recorded loop iterations ------------------- *)
\* s with its first n entries removed
Drop(s, n) == SubSeq(s, n + 1, Len(s))

Split_ == pc \in {"overlap", "returned"}

\* the number of chunks pushed before iteration j
Rank(j) == Cardinality({ k \in 1..(j - 1) : ~visits[k].over })

\* iteration j sent its part to a recursive call that had no separator left
DroppedAt(j) == visits[j].over /\ Len(visits[j].nextSeparators) = 0

\* C11: split terminates: each recursive call of recursiveSplit receives the
\* separator list with exactly its first entry removed, so the recursion
\* depth never exceeds the length of the configured separator list.
C11_DepthBounded ==
  Split_ =>
    \A j \in 1..Len(visits) :
      /\ visits[j].separators = Drop(config.separators, visits[j].depth)
      /\ visits[j].nextSeparators = Drop(config.separators, visits[j].depth + 1)
      /\ visits[j].depth + 1 <= Len(config.separators)

\* C11 witness: split has returned after a call at the deepest level, the
\* last separator of a list of three or more, sent a part on with no
\* separator left.
C11_Witness ==
  /\ Returned
  /\ Len(config.separators) >= 3
  /\ \E j \in 1..Len(visits) :
       /\ visits[j].depth = Len(config.separators) - 1
       /\ DroppedAt(j)

\* C12: empty parts are never dropped: an empty part goes through the same
\* encode and budget step as any other part and, when within budget, is in
\* the output as its own chunk, in its position (with empty text and no
\* tokens when separators are not kept).
C12_EmptyPartsKept ==
  Returned =>
    /\ Len(text) > 0 =>
         Cardinality({ j \in 1..Len(visits) : visits[j].depth = 0 })
           = Len(jsSplit(text, Head(config.separators)))
    /\ \A j \in 1..Len(visits) :
         (visits[j].part = <<>> /\ ~visits[j].over) =>
           /\ visits[j].tokens = encode(config.tokenizer, visits[j].chunk)
           /\ Rank(j) + 1 <= Len(chunks)
           /\ chunks[Rank(j) + 1].text = visits[j].chunk
           /\ chunks[Rank(j) + 1].startPos = visits[j].startPos
           /\ chunks[Rank(j) + 1].endPos = visits[j].endPos
           /\ ~config.keepSeparators =>
                /\ chunks[Rank(j) + 1].text = <<>>
                /\ Len(chunks[Rank(j) + 1].tokens) = 0

\* C12 witness: consecutive delimiters gave an empty part between two
\* non-empty chunks, and it is in the output with empty text.
C12_Witness ==
  /\ Returned /\ ~config.keepSeparators
  /\ \E k \in 2..(Len(chunks) - 1) :
       /\ chunks[k].text = <<>>
       /\ chunks[k - 1].text # <<>>
       /\ chunks[k + 1].text # <<>>

\* every single character encodes to one token
OneTokenPerChar ==
  \A c \in Alphabet \cup {SP} : Len(encode(config.tokenizer, <<c>>)) = 1

ScenarioC ==
  /\ Returned
  /\ config.separators = DefaultSeparators
  /\ OneTokenPerChar
  /\ \A n \in 1..Len(text) : text[n] \notin {NL, SP}
  /\ Len(encode(config.tokenizer, text)) > config.chunkSize

\* C13: scenario C: with the default separators and one token per
\* character, a text without newline or space that is over budget comes
\* back as one chunk per character, in order, the i-th (0-based) with the
\* i-th character as text, startPos = endPos = i and exactly one token.
C13_ScenarioC ==
  ScenarioC =>
    /\ Len(chunks) = Len(text)
    /\ \A n \in 1..Len(text) :
         /\ chunks[n].text = << text[n] >>
         /\ chunks[n].startPos = n - 1
         /\ chunks[n].endPos = n - 1
         /\ Len(chunks[n].tokens) = 1

\* C13 witness: scenario C on a text of three characters or more.
C13_Witness == ScenarioC /\ Len(text) >= 3 /\ Len(chunks) >= 3

\* C14: post retries only on status 429, waits retryPolicy[k] before the
\* (k+1)-th retry and sends the request at most retryPolicy.length + 1
\* times (3 with the default policy); a last attempt that is still 429 is
\* returned and createEmbeddings reports 'rate_limited'.
C14_RetryPolicy ==
  /\ \A k \in 1..(Len(responses) - 1) : responses[k] = 429
  /\ epc = "waiting" => responses[Len(responses)] = 429
  /\ Len(delays) <= Len(retryPolicy)
  /\ \A k \in 1..Len(delays) : delays[k] = retryPolicy[k]
  /\ Len(delays) = (IF epc = "waiting" THEN retryCount + 1 ELSE retryCount)
  /\ Len(responses) <= Len(retryPolicy) + 1
  /\ retryPolicy = DefaultRetryPolicy => Len(responses) <= 3
  /\ (epc = "returned" /\ responses[Len(responses)] = 429) =>
       /\ Len(responses) = Len(retryPolicy) + 1
       /\ result = "rate_limited"

\* C14 witness: with the default policy every attempt was answered 429, the
\* third response was returned and reported as rate_limited.
C14_Witness ==
  /\ epc = "returned"
  /\ retryPolicy = DefaultRetryPolicy
  /\ responses = << 429, 429, 429 >>
  /\ delays = << 2000, 5000 >>
  /\ result = "rate_limited"

\* iteration j2 handles the part after that of iteration j, in the same call
NextPart(j, j2) ==
  /\ j < j2
  /\ visits[j2].depth = visits[j].depth
  /\ visits[j2].i = visits[j].i + 1
  /\ \A k \in (j + 1)..(j2 - 1) : visits[k].depth > visits[j].depth

\* C15: offset bookkeeping: a part's endPos is startPos + len(part) - 1 +
\* len(s) when it is not the last part and startPos + len(part) - 1 when
\* it is, and the next part's startPos is that endPos + 1, whether the part
\* was emitted or handed to a recursive call; an emitted non-last chunk's
\* span covers its part followed by the consumed separator.
C15_Offsets ==
  Returned =>
    /\ \A j \in 1..Len(visits) :
         LET v == visits[j]
             s == Head(v.separators)
         IN /\ v.lastChunk => v.endPos = v.startPos + Len(v.part) - 1
            /\ ~v.lastChunk =>
                 v.endPos = v.startPos + Len(v.part) - 1 + Len(s)
            /\ (v.depth = 0 /\ v.i = 0) => v.startPos = 0
            /\ (~v.over /\ ~v.lastChunk) =>
                 /\ SubSeq(text, v.startPos + 1, v.endPos + 1) = v.part \o s
                 /\ chunks[Rank(j) + 1].startPos = v.startPos
                 /\ chunks[Rank(j) + 1].endPos = v.endPos
    /\ \A j, j2 \in 1..Len(visits) :
         NextPart(j, j2) => visits[j2].startPos = visits[j].endPos + 1

\* C15 witness: a non-last part was handed to a recursive call, the part
\* after it was emitted, and the separator is longer than one character.
C15_Witness ==
  /\ Returned
  /\ \E j, j2 \in 1..Len(visits) :
       /\ NextPart(j, j2)
       /\ visits[j].over
       /\ ~visits[j2].over
       /\ Len(Head(visits[j].separators)) = 2

\* C16: as implemented, the overlap extraction always yields an empty
\* slice: for every input and every chunkOverlap, every chunk split returns
\* has startOverlap = [] and endOverlap = [].
C16_OverlapEmpty ==
  Split_ =>
    \A k \in 1..Len(chunks) :
      chunks[k].startOverlap = <<>> /\ chunks[k].endOverlap = <<>>

\* C16 witness: split returned three or more chunks with tokens, with
\* chunkOverlap > 0, and the overlap loop has visited them all.
C16_Witness ==
  /\ Returned
  /\ config.chunkOverlap > 0
  /\ Len(chunks) >= 3
  /\ i = Len(chunks)
  /\ \A k \in 1..Len(chunks) : Len(chunks[k].tokens) >= 1

\* C17: when a part exceeds chunkSize and no separators remain for the
\* recursive call, no chunk is produced for that part, yet the position
\* counter still advances past it: every chunk emitted for the parts that
\* follow has the startPos and endPos it would have had if the dropped
\* part had been emitted.
C17_DroppedPart ==
  Returned =>
    \A j \in 1..Len(visits) :
      DroppedAt(j) =>
        LET v == visits[j] IN
        \* no iteration ran for the part and no chunk holds it
        /\ j < Len(visits) => visits[j + 1].depth <= v.depth
        /\ \A k \in 1..Len(chunks) :
             ~(chunks[k].startPos = v.startPos /\ chunks[k].text = v.chunk)
        \* the part keeps its place in the input
        /\ MatchesAt(text, v.chunk, v.startPos + 1)
        /\ \A k \in 1..Rank(j) : chunks[k].endPos < v.startPos
        \* the chunks after it lie after it, at their own offsets
        /\ \A k \in (Rank(j) + 1)..Len(chunks) :
             /\ chunks[k].startPos >= v.endPos + 1
             /\ MatchesAt(text, chunks[k].text, chunks[k].startPos + 1)
        /\ \A j2 \in (j + 1)..Len(visits) :
             ~visits[j2].over =>
               /\ chunks[Rank(j2) + 1].startPos = visits[j2].startPos
               /\ chunks[Rank(j2) + 1].endPos = visits[j2].endPos
               /\ NextPart(j, j2) => visits[j2].startPos = v.endPos + 1

\* C17 witness: a part was dropped between two emitted chunks.
C17_Witness ==
  /\ Returned
  /\ \E j \in 1..Len(visits) :
       /\ DroppedAt(j)
       /\ Rank(j) >= 1
       /\ Rank(j) < Len(chunks)
       /\ \E j2 \in 1..Len(visits) : NextPart(j, j2) /\ ~visits[j2].over

\* C18: chunk spans are ordered and never overlap: consecutive chunks have
\* c[i+1].startPos >= c[i].endPos + 1; every chunk has 0 <= startPos,
\* endPos <= len(input) - 1 and endPos >= startPos - 1, with endPos <
\* startPos only for a chunk whose text is empty.
C18_SpansOrdered ==
  Returned =>
    /\ \A k \in 1..(Len(chunks) - 1) :
         chunks[k + 1].startPos >= chunks[k].endPos + 1
    /\ \A k \in 1..Len(chunks) :
         /\ 0 <= chunks[k].startPos
         /\ chunks[k].endPos <= Len(text) - 1
         /\ chunks[k].endPos >= chunks[k].startPos - 1
         /\ chunks[k].endPos < chunks[k].startPos => chunks[k].text = <<>>

\* C18 witness: three chunks or more, one of them empty with endPos <
\* startPos, produced at more than one depth.
C18_Witness ==
  /\ Returned
  /\ Len(chunks) >= 3
  /\ \E k \in 1..Len(chunks) : chunks[k].endPos < chunks[k].startPos
  /\ \E j \in 1..Len(visits) : visits[j].depth >= 1 /\ ~visits[j].over

OverlapMessage == "chunkOverlap must be <= chunkSize"

\* C19: defaults are merged before validation: a configuration that sets
\* chunkSize to c with 1 <= c < 40 and leaves chunkOverlap out is rejected
\* with 'chunkOverlap must be <= chunkSize'; with a chunkOverlap <=
\* chunkSize supplied (and >= 0) the same chunkSize is accepted.
C19_DefaultOverlapRejected ==
  (pc # "new" /\ input.chunkSize.def /\ 1 <= input.chunkSize.val
     /\ input.chunkSize.val < DefaultChunkOverlap) =>
    /\ ~input.chunkOverlap.def => (pc = "failed" /\ error = OverlapMessage)
    /\ (input.chunkOverlap.def /\ 0 <= input.chunkOverlap.val
          /\ input.chunkOverlap.val <= input.chunkSize.val) => Constructed

\* C19 witness: new TextSplitter({chunkSize: 39}) was rejected.
C19_Witness ==
  /\ pc = "failed"
  /\ error = OverlapMessage
  /\ input.chunkSize = Some(DefaultChunkOverlap - 1)
  /\ ~input.chunkOverlap.def
  /\ ~input.keepSeparators.def

=============================================================================
